---------------------------- MODULE Spec2Model ----------------------------
(***************************************************************************)
(* Model of the request handlers of the proxy: the OpenAI-compatible       *)
(* controller (chatCompletions, completions, embeddings, embed) and the    *)
(* local-runner controller (chat, generate, embeddings, embed), both in    *)
(* src/src/controllers/openaiController.js, with the upstream calls of     *)
(* src/unnamed/part_001 (makeChatRequest, makeCompletionRequest,           *)
(* makeEmbeddingsRequest) as the environment.                              *)
(*                                                                         *)
(* One request is followed from its arrival to the end of its response.    *)
(* An async handler is cut at its awaits; a stream callback is one action. *)
(*                                                                         *)
(* The upstream body is a sequence of bytes.  A byte is one of             *)
(*   "{"   the opening of a delta object up to its content string          *)
(*   "}"   the closing of a delta object                                   *)
(*   "a"   an ASCII character of the content                               *)
(*   "E1" "E2"  the two bytes of one non-ASCII character (UTF-8)           *)
(*   "o"   a JSON object that has no choices[0]                            *)
(*   "D"   the text [DONE]                                                 *)
(*   "P"   the text 'data: '                                               *)
(*   "cr" "nl" " "  carriage return, line feed, blank                      *)
(* Decoded text is a sequence of characters: the ASCII bytes, "E" for the  *)
(* decoded two-byte character and "U" for U+FFFD.                          *)
(***************************************************************************)
EXTENDS Integers, Sequences, FiniteSets, TLC

\* ---------------------------------------------------------------- bounds
\* Lines of an upstream body.
MaxLines == 3
\* Lines of an upstream body where models, a second stream or a disconnecting
\* client are in play.
MaxPairLines == 2
\* Entries of the model catalog.
MaxCatalog == 3
\* Messages of a chat request.
MaxMessages == 3

\* ------------------------------------------------------- program constants
maxRetries == 3

VARIABLES
  profile,     \* which inputs the environment offers (fixed by Init)
  apiStyle,    \* API_STYLE of the process: "openai" or "gemini"
  defaultModel,\* DEFAULT_MODEL of the process, "" when not configured
  model,       \* req.body.model, "" when absent
  upModel,     \* the model argument of the upstream call (chosenModel)
  hasInput,    \* the request body carries its prompt / input / messages
  stream,      \* stream of the request body, after its default
  catalog,     \* SUPPORTED_MODELS of the process
  descriptor,  \* id of the model descriptor answered by getModel, "" if none
  messages,    \* messages argument of makeChatRequest
  contents,    \* contents of the payload makeChatRequest has built
  clientGone,  \* the client has closed its connection
  peer,        \* a second streaming chat request in flight
  handler,     \* the handler serving the request, "" before it arrives
  wantsStream, \* stream && API_STYLE !== 'gemini'
  pc,          \* where the async handler stands
  retryCount,  \* chatCompletions: let retryCount
  calls,       \* upstream calls made for the request
  waits,       \* delay(5000) calls made for the request
  outcomes,    \* outcomes of the upstream calls, in order
  body,        \* bytes of the upstream response stream
  pos,         \* bytes of body delivered in 'data' events so far
  straddled,   \* the lines cut by a chunk boundary before their terminator
  upState,     \* upstream stream: "none", "open", "ended", "failed"
  buffer,      \* let buffer of the stream handlers (decoded text)
  out,         \* what res.write has written, in order
  resp,        \* kind of response started: "none","json","stream","error400","error500"
  ended        \* the response is finished (res.json or res.end)

vars == <<profile, apiStyle, defaultModel, model, upModel, hasInput, stream, catalog, descriptor,
          messages, contents, clientGone, peer, handler,
          wantsStream, pc, retryCount, calls, waits, outcomes,
          body, pos, straddled, upState, buffer, out, resp, ended>>

ChatHandlers == {"chatCompletions", "chat"}
PipeHandlers == {"completions", "generate"}
EmbedHandlers == {"v1embeddings", "v1embed", "embeddings", "embed"}
Handlers == ChatHandlers \cup PipeHandlers \cup EmbedHandlers

\* ------------------------------------------------------------ text helpers
Whitespace == {"cr", "nl", " "}
ContentChars == {"a", "E", "U"}

RECURSIVE toString(_)
\* Buffer.prototype.toString(): UTF-8 decoding of one chunk on its own; an
\* incomplete or orphaned byte of a multi-byte character decodes to U+FFFD.
toString(bytes) ==
  IF bytes = <<>> THEN <<>>
  ELSE IF Head(bytes) = "E1"
       THEN IF Len(bytes) >= 2 /\ bytes[2] = "E2"
            THEN <<"E">> \o toString(SubSeq(bytes, 3, Len(bytes)))
            ELSE <<"U">> \o toString(Tail(bytes))
       ELSE IF Head(bytes) = "E2"
            THEN <<"U">> \o toString(Tail(bytes))
            ELSE <<Head(bytes)>> \o toString(Tail(bytes))

\* indexOf with the end of a non-empty text taken for a terminator.
indexOfOrEnd(s, c) ==
  IF \E i \in 1..Len(s) : s[i] = c
  THEN (CHOOSE i \in 1..Len(s) : s[i] = c /\ \A j \in 1..(i-1) : s[j] # c) - 1
  ELSE IF s # <<>> THEN Len(s) ELSE -1

\* String.prototype.indexOf for one character: 0-based, -1 when absent.
indexOf(s, c) ==
  IF \E i \in 1..Len(s) : s[i] = c
  THEN (CHOOSE i \in 1..Len(s) : s[i] = c /\ \A j \in 1..(i-1) : s[j] # c) - 1
  ELSE -1

\* String.prototype.slice(from, to) and slice(from), 0-based, to exclusive.
slice(s, from, to) == SubSeq(s, from + 1, to)
sliceFrom(s, from) == SubSeq(s, from + 1, Len(s))

RECURSIVE trimStart(_)
trimStart(s) ==
  IF s # <<>> /\ Head(s) \in Whitespace THEN trimStart(Tail(s)) ELSE s

RECURSIVE trimEnd(_)
trimEnd(s) ==
  IF s # <<>> /\ s[Len(s)] \in Whitespace THEN trimEnd(SubSeq(s, 1, Len(s) - 1)) ELSE s

\* String.prototype.trim()
trim(s) == trimEnd(trimStart(s))

\* message.replace(/^data: /, '')
stripDataPrefix(message) ==
  IF message # <<>> /\ Head(message) = "P" THEN Tail(message) ELSE message

\* JSON.parse accepts the text (surrounding whitespace is allowed by JSON).
JsonParses(jsonStr) ==
  LET t == trim(jsonStr) IN
    \/ t = <<"o">>
    \/ /\ Len(t) >= 2
       /\ t[1] = "{"
       /\ t[Len(t)] = "}"
       /\ \A i \in 2..(Len(t) - 1) : t[i] \in ContentChars

\* The parsed object has choices[0].delta.
HasDelta(jsonStr) == JsonParses(jsonStr) /\ trim(jsonStr) # <<"o">>

\* choices[0].delta.content || ""
DeltaContent(jsonStr) ==
  LET t == trim(jsonStr) IN
    IF HasDelta(jsonStr) THEN SubSeq(t, 2, Len(t) - 1) ELSE <<>>

\* The statements after the sentinel test throw: JSON.parse on a text that is
\* no JSON, or (chat only, which reads choices[0].delta without ?.) a
\* TypeError on an object that has no choices[0].
Throws(h, jsonStr) ==
  \/ ~JsonParses(jsonStr)
  \/ h = "chat" /\ ~HasDelta(jsonStr)

\* chat calls res.header('Content-Type', ...) before every res.write: once a
\* write has sent the headers, setHeader throws (ERR_HTTP_HEADERS_SENT) inside
\* the try.  chatCompletions sets its headers once, before the handlers.
HeaderThrows(h, frames) == h = "chat" /\ frames # <<>>

\* ------------------------------------------------------------------ frames
DeltaFrame(content, line) == [kind |-> "delta", content |-> content, line |-> line]
SentinelFrame(line) == [kind |-> "sentinel", content |-> <<>>, line |-> line]
FinalFrame == [kind |-> "final", content |-> <<>>, line |-> 0]
RawFrame(bytes) == [kind |-> "raw", content |-> bytes, line |-> 0]


\* One buffer at module level, which a handler shares with the other request.
moduleBuffer(own, other) == other

\* let buffer = '' inside the handler: the 'data' callback of a request reads
\* and writes the buffer of its own call.
requestBuffer(own, other) == own

\* A write that puts the frame ahead of what was written before.
resWriteFirst(frames, f) == <<f>> \o frames

\* res.write(frame): the frame follows everything written before.
resWrite(frames, f) == Append(frames, f)

\* ------------------------------------------------------ the 'data' handlers
RECURSIVE ProcessLines(_, _, _, _)
\* The while (true) loop of the 'data' handler of chatCompletions and of chat,
\* inside its try: lineNo lines have been taken from the stream before.  A
\* throw leaves the loop with the buffer as it is then (the catch only logs).
ProcessLines(h, buf, frames, lineNo) ==
  LET messageEnd == indexOf(buf, "nl") IN
    IF messageEnd = -1 THEN [buffer |-> buf, out |-> frames]
    ELSE LET message == slice(buf, 0, messageEnd)
             rest == sliceFrom(buf, messageEnd + 1)
             jsonStr == stripDataPrefix(message)
         IN IF trim(message) = <<>>
            THEN ProcessLines(h, rest, frames, lineNo + 1)
            ELSE IF trim(jsonStr) = <<"D">>
            THEN ProcessLines(h, rest,
                              IF h = "chatCompletions"
                              THEN resWrite(frames, SentinelFrame(lineNo + 1))
                              ELSE frames,
                              lineNo + 1)
            ELSE IF Throws(h, jsonStr) \/ HeaderThrows(h, frames)
            THEN [buffer |-> rest, out |-> frames]
            ELSE ProcessLines(h, rest,
                              resWrite(frames, DeltaFrame(DeltaContent(jsonStr), lineNo + 1)),
                              lineNo + 1)

\* Number of line terminators in a text.
CountNL(s) == Cardinality({i \in 1..Len(s) : s[i] = "nl"})

\* The 'end' handler of chatCompletions taken for that of chat.
EndFramesAsOpenAI(h) == <<FinalFrame, SentinelFrame(0)>>

\* What the 'end' handler writes before res.end().
EndFrames(h) ==
  IF h = "chatCompletions" THEN <<FinalFrame, SentinelFrame(0)>> ELSE <<FinalFrame>>

\* An 'end' handler that first treats what is left in the buffer as a line.
EndWritesFlushingBuffer(h, buf, frames, lineNo) ==
  ProcessLines(h, buf \o <<"nl">>, frames, lineNo).out \o EndFrames(h)

\* The writes of the 'end' handler after the frames written before: it does
\* not read the buffer.
EndWrites(h, buf, frames, lineNo) == frames \o EndFrames(h)

\* readable.pipe(res): the bytes are forwarded as they are.
PipeWrite(frames, bytes) ==
  IF frames = <<>> THEN <<RawFrame(bytes)>>
  ELSE <<RawFrame(frames[1].content \o bytes)>>

\* ------------------------------------------------------------ retry policy
\* The retry test with no bound left for the last attempt.
IsRetryableOffByOne(status, count) == status = "429" /\ count < maxRetries

\* The retry test allowing one retry only.
IsRetryableOnce(status, count) == status = "429" /\ count < maxRetries - 2

\* The retry test without the test of the status.
IsRetryableAnyStatus(status, count) == count < maxRetries - 1

\* error.response?.status === 429 && retryCount < maxRetries - 1
IsRetryable(status, count) == status = "429" /\ count < maxRetries - 1

\* while (retryCount < maxRetries)
LoopCondition(count) == count < maxRetries

\* The loop of chatCompletions without its break: the next iteration calls the
\* upstream again.
AfterSuccessNoBreak(h) == IF h = "chatCompletions" THEN "await" ELSE "done"

\* A handler that goes back to its upstream call after it has answered.
AfterSuccessCallsAgain(h) == "await"

\* Where the handler stands after a successful upstream call: chatCompletions
\* leaves its loop by break, the other handlers have no loop.
AfterSuccess(h) == "done"

\* --------------------------------------------------------- upstream bodies
\* The complete lines an upstream body is made of: a delta line, a delta line
\* with the 'data: ' prefix, a non-ASCII character and CR LF, a line cut short
\* (no JSON), and the sentinel line.
LineTexts ==
  { <<"{", "a", "}", "nl">>,
    <<"P", "{", "E1", "E2", "}", "cr", "nl">>,
    <<"{", "a", "nl">>,
    <<"P", "D", "nl">> }

RECURSIVE BodiesOf(_)
BodiesOf(n) ==
  IF n = 0 THEN {<<>>}
  ELSE LET shorter == BodiesOf(n - 1) IN
         shorter \cup {b \o l : b \in {x \in shorter : CountNL(x) = n - 1}, l \in LineTexts}

Bodies == BodiesOf(MaxLines)

RECURSIVE SmallBodiesOf(_)
\* Bodies of up to n lines, each a delta line or a line cut short.
SmallBodiesOf(n) ==
  IF n = 0 THEN {<<>>}
  ELSE LET shorter == SmallBodiesOf(n - 1) IN
         shorter \cup {b \o l : b \in {x \in shorter : CountNL(x) = n - 1},
                                l \in {<<"{", "a", "}", "nl">>, <<"{", "a", "nl">>}}

SmallBodies == SmallBodiesOf(MaxPairLines)

\* The upstream bodies of the second stream: two lines, each a delta line with
\* the 'data: ' prefix or a line cut short.
PeerBodies ==
  {l1 \o l2 : l1 \in {<<"P", "{", "E", "}", "nl">>, <<"{", "E", "nl">>},
              l2 \in {<<"P", "{", "E", "}", "nl">>, <<"{", "E", "nl">>}}

\* Lines in the shapes an upstream may give them: a delta line, a delta
\* without content ({} stands for a role-only delta), an object without
\* choices[0] after 'data: ', and the sentinel bare, after a blank and
\* 'data: ', and with a blank and CR after it.
ShapeLineTexts ==
  { <<"{", "a", "}", "nl">>,
    <<"{", "}", "nl">>,
    <<"P", "o", "nl">>,
    <<"D", "nl">>,
    <<" ", "P", "D", "nl">>,
    <<"P", "D", " ", "cr", "nl">> }

RECURSIVE ShapeBodiesOf(_)
ShapeBodiesOf(n) ==
  IF n = 0 THEN {<<>>}
  ELSE LET shorter == ShapeBodiesOf(n - 1) IN
         shorter \cup {b \o l : b \in {x \in shorter : CountNL(x) = n - 1},
                                l \in ShapeLineTexts}

ShapeBodies == ShapeBodiesOf(MaxPairLines)

\* Bodies that may end in a line without terminator: a delta line or the
\* sentinel.
TailBodies ==
  SmallBodies \cup {b \o t : b \in SmallBodies, t \in {<<"{", "a", "}">>, <<"P", "D">>}}

\* The upstream bodies and the client's model names of a profile.
BodiesFor(p) ==
  IF p = "lines" THEN Bodies
  ELSE IF p = "shapes" THEN ShapeBodies
  ELSE IF p = "tail" THEN TailBodies
  ELSE SmallBodies
ModelsFor(p) == IF p = "models" THEN {"", "m1"} ELSE {"m1"}

\* Whether the chat and completion requests of a profile may lack their
\* messages or prompt.
InputsFor(p) == IF p = "models" THEN BOOLEAN ELSE {TRUE}

\* ------------------------------------------------------------------ models
\* a || b on strings
Or(a, b) == IF a # "" THEN a ELSE b

\* config.js mapModel
mapModel(name) == IF defaultModel # "" THEN defaultModel ELSE name

\* The model field of a streamed chat frame of a kind ("delta" or "final"):
\* chatCompletions writes the model of the request body, chat the model it
\* chose, each with a literal for an empty one.
FrameModel(h, kind) ==
  IF h = "chatCompletions" THEN Or(model, "meta-llama/llama-3.1-8b-instruct/fp-8")
  ELSE IF kind = "delta" THEN Or(upModel, "meta-llama/Meta-Llama-3-8B-Instruct")
  ELSE Or(upModel, "qwen2.5:0.5b")

\* The model field of the non-streaming chat response: chosenModel.
JsonModel(h) == upModel

\* ------------------------------------------------------- gemini chat payload
\* A message: its role, and its content, a string or another JSON value.
Messages ==
  [role : {"system", "user", "assistant"},
   content : {[type |-> "string", value |-> "hi"], [type |-> "object", value |-> "hi"]}]

RECURSIVE MessageListsOf(_)
\* The message sequences of up to n messages.
MessageListsOf(n) ==
  IF n = 0 THEN {<<>>}
  ELSE LET shorter == MessageListsOf(n - 1) IN
         shorter \cup {Append(l, m) : l \in {y \in shorter : Len(y) = n - 1}, m \in Messages}

\* A mapping that sends every role as it is.
GeminiRoleKept(role) == role

\* m.role === 'system' ? 'user' : m.role
GeminiRole(role) == IF role = "system" THEN "user" ELSE role

\* typeof m.content === 'string' ? m.content : JSON.stringify(m.content), as
\* the characters of the text: stringify of the value "hi" inside an object
\* is not the string hi.
GeminiText(content) ==
  IF content.type = "string" THEN <<content.value>> ELSE <<"{", content.value, "}">>

\* (messages || []).map(m => ({ role, parts: [{ text }] }))
GeminiContents(msgs) ==
  [i \in 1..Len(msgs) |->
     [role |-> GeminiRole(msgs[i].role), parts |-> <<[text |-> GeminiText(msgs[i].content)]>>]]

\* ----------------------------------------------------------------- catalog
\* The names a catalog holds and a client asks for; "zz" is in no catalog.
Names == {"m1", "M1", "m2"}

RECURSIVE CatalogsOf(_)
\* The catalogs of up to n entries.
CatalogsOf(n) ==
  IF n = 0 THEN {<<>>}
  ELSE LET shorter == CatalogsOf(n - 1) IN
         shorter \cup {Append(c, x) : c \in {y \in shorter : Len(y) = n - 1}, x \in Names}

\* A lookup that answers a descriptor for every name.
getOpenAIModelAlways(models, name) == name

\* getOpenAIModel: the id of the descriptor, "" for null.  includes compares
\* the whole name, case included.
getOpenAIModel(models, name) ==
  IF \E i \in 1..Len(models) : models[i] = name THEN name ELSE ""

\* The record of the second request before it arrives.
NoPeer == [handler |-> "", body |-> <<>>, pos |-> 0, upState |-> "none",
           buffer |-> <<>>, out |-> <<>>, ended |-> FALSE]

\* -------------------------------------------------------------------- Init
\* No request has arrived; nothing is in flight.
Idle ==
  /\ apiStyle \in {"openai", "gemini"}
  /\ model = ""
  /\ upModel = ""
  /\ hasInput = FALSE
  /\ stream = FALSE
  /\ descriptor = ""
  /\ messages = <<>>
  /\ contents = <<>>
  /\ clientGone = FALSE
  /\ peer = NoPeer
  /\ handler = ""
  /\ wantsStream = FALSE
  /\ pc = "idle"
  /\ retryCount = 0
  /\ calls = 0
  /\ waits = 0
  /\ outcomes = <<>>
  /\ body = <<>>
  /\ pos = 0
  /\ straddled = {}
  /\ upState = "none"
  /\ buffer = <<>>
  /\ out = <<>>
  /\ resp = "none"
  /\ ended = FALSE

\* The process with no DEFAULT_MODEL; clients name one model and upstream
\* bodies are all bodies of up to MaxLines lines.
Init == profile = "lines" /\ defaultModel = "" /\ catalog = <<"m1">> /\ Idle

\* The process with or without DEFAULT_MODEL; clients name a model or none.
InitModels ==
  profile = "models" /\ defaultModel \in {"", "forced"} /\ catalog = <<"m1">> /\ Idle

\* The process with any catalog of up to MaxCatalog entries.
InitCatalog ==
  profile = "catalog" /\ defaultModel = "" /\ catalog \in CatalogsOf(MaxCatalog) /\ Idle

\* The process under the gemini style, before makeChatRequest is called.
InitPayload ==
  profile = "payload" /\ defaultModel = "" /\ catalog = <<"m1">> /\ apiStyle = "gemini" /\ Idle

\* As Init, with upstream bodies of lines in every shape.
InitShapes == profile = "shapes" /\ defaultModel = "" /\ catalog = <<"m1">> /\ Idle

\* As Init, with upstream bodies that may lack their last terminator.
InitTail == profile = "tail" /\ defaultModel = "" /\ catalog = <<"m1">> /\ Idle

\* As Init, with short upstream bodies.
InitSmall == profile = "small" /\ defaultModel = "" /\ catalog = <<"m1">> /\ Idle

streamVars == <<body, pos, straddled, upState, buffer, out>>
sideVars == <<catalog, descriptor, messages, contents>>
otherVars == <<profile, defaultModel, clientGone, peer, sideVars>>
modelVars == <<model, upModel, hasInput, stream>>

\* ----------------------------------------------------- arrival of a request
\* A handler that streams whenever the client asks for it.
WantsStreamAnyStyle(streaming, style) == streaming

\* const wantsStream = stream && API_STYLE !== 'gemini'
WantsStream(streaming, style) == streaming /\ style # "gemini"

\* chatCompletions up to its first await; stream defaults to false.
ChatCompletionsStart(m, given, streaming) ==
  /\ pc = "idle"
  /\ handler' = "chatCompletions"
  /\ model' = m
  /\ hasInput' = given
  /\ upModel' = mapModel(Or(m, defaultModel))
  /\ stream' = streaming
  /\ wantsStream' = WantsStream(streaming, apiStyle)
  /\ retryCount' = 0
  /\ calls' = calls + 1
  /\ pc' = "await"
  /\ UNCHANGED <<otherVars, apiStyle, waits, outcomes, resp, ended>>
  /\ UNCHANGED streamVars

\* chat up to its await; stream defaults to true.
ChatStart(m, given, streaming) ==
  /\ pc = "idle"
  /\ handler' = "chat"
  /\ model' = m
  /\ hasInput' = given
  /\ upModel' = mapModel(Or(m, defaultModel))
  /\ stream' = streaming
  /\ wantsStream' = WantsStream(streaming, apiStyle)
  /\ calls' = calls + 1
  /\ pc' = "await"
  /\ UNCHANGED <<otherVars, apiStyle, retryCount, waits, outcomes, resp, ended>>
  /\ UNCHANGED streamVars

\* completions and generate up to their await.
CompletionStart(h, m, given, streaming) ==
  /\ pc = "idle"
  /\ h \in PipeHandlers
  /\ handler' = h
  /\ model' = m
  /\ hasInput' = given
  /\ upModel' = mapModel(Or(m, defaultModel))
  /\ stream' = streaming
  /\ wantsStream' = WantsStream(streaming, apiStyle)
  /\ calls' = calls + 1
  /\ pc' = "await"
  /\ UNCHANGED <<otherVars, apiStyle, retryCount, waits, outcomes, resp, ended>>
  /\ UNCHANGED streamVars

\* The validation without its test of the input.
IsValidEmbeddingModelOnly(named, given) == named # ""

\* if (!model) return 400; if (!input) return 400
IsValidEmbedding(named, given) == named # "" /\ given

\* The four embeddings handlers up to their await, or to their 400 answer.
\* The local-runner handlers default the model to 'all-minilm'.  None of
\* them calls mapModel: the model goes upstream as the client gave it.
EmbeddingsStart(h, m, given) ==
  /\ pc = "idle"
  /\ h \in EmbedHandlers
  /\ handler' = h
  /\ wantsStream' = FALSE
  /\ stream' = FALSE
  /\ model' = m
  /\ hasInput' = given
  /\ LET named == IF h \in {"v1embeddings", "v1embed"} THEN m ELSE Or(m, "all-minilm")
         valid == IsValidEmbedding(named, given)
     IN IF valid
        THEN /\ calls' = calls + 1
             /\ upModel' = named
             /\ pc' = "await"
             /\ UNCHANGED <<resp, ended>>
        ELSE /\ resp' = "error400"
             /\ ended' = TRUE
             /\ pc' = "done"
             /\ UNCHANGED <<calls, upModel>>
  /\ UNCHANGED <<otherVars, apiStyle, retryCount, waits, outcomes>>
  /\ UNCHANGED streamVars

\* ------------------------------------------------ the upstream call settles
\* A catch that logs the error and answers nothing.
CatchLogsOnly(h) == "none"

\* The catch of a handler: res.status(500).json({ error ... }).
CatchResponse(h) == "error500"

\* The upstream call is rejected with error.response.status === 429.
UpstreamRateLimited ==
  /\ pc = "await"
  /\ outcomes' = Append(outcomes, "429")
  /\ IF handler = "chatCompletions" /\ IsRetryable("429", retryCount)
     THEN /\ waits' = waits + 1
          /\ pc' = "delay"
          /\ UNCHANGED <<resp, ended>>
     ELSE /\ resp' = CatchResponse(handler)
          /\ ended' = TRUE
          /\ pc' = "done"
          /\ UNCHANGED waits
  /\ UNCHANGED <<otherVars, modelVars, apiStyle, handler, wantsStream, retryCount, calls>>
  /\ UNCHANGED streamVars

\* The upstream call is rejected with another status or a network error.
UpstreamFailed ==
  /\ pc = "await"
  /\ outcomes' = Append(outcomes, "error")
  /\ IF handler = "chatCompletions" /\ IsRetryable("error", retryCount)
     THEN /\ waits' = waits + 1
          /\ pc' = "delay"
          /\ UNCHANGED <<resp, ended>>
     ELSE /\ resp' = CatchResponse(handler)
          /\ ended' = TRUE
          /\ pc' = "done"
          /\ UNCHANGED waits
  /\ UNCHANGED <<otherVars, modelVars, apiStyle, handler, wantsStream, retryCount, calls>>
  /\ UNCHANGED streamVars

\* The upstream call resolves; with wantsStream its data is a stream of bytes b
\* and the handler attaches its stream handlers (or pipes), else it answers.
UpstreamSucceeded(b) ==
  /\ pc = "await"
  /\ outcomes' = Append(outcomes, "ok")
  /\ IF wantsStream
     THEN /\ body' = b
          /\ upState' = "open"
          /\ resp' = "stream"
          /\ UNCHANGED ended
     ELSE /\ b = <<>>
          /\ resp' = "json"
          /\ ended' = TRUE
          /\ UNCHANGED <<body, upState>>
  /\ pc' = AfterSuccess(handler)
  /\ calls' = IF pc' = "await" THEN calls + 1 ELSE calls
  /\ UNCHANGED <<otherVars, modelVars, apiStyle, handler, wantsStream, retryCount, waits>>
  /\ UNCHANGED <<pos, straddled, buffer, out>>

\* The axios call carries a timeout: makeChatRequest sets one on its
\* non-streaming call of the openai style only (timeout: stream ? 0 : 60000);
\* its gemini call, makeCompletionRequest and makeEmbeddingsRequest set none.
HasTimeout(h, streaming, style) == h \in ChatHandlers /\ style # "gemini" /\ ~streaming

\* The upstream never answers the call.  With a timeout axios rejects the call
\* (an error without response, so no 429); without one the await never
\* returns.
UpstreamSilent ==
  /\ pc = "await"
  /\ IF HasTimeout(handler, wantsStream, apiStyle)
     THEN UpstreamFailed
     ELSE /\ pc' = "hung"
          /\ UNCHANGED <<otherVars, modelVars, apiStyle, handler, wantsStream, retryCount, calls,
                         waits, outcomes, resp, ended>>
          /\ UNCHANGED streamVars

\* delay(5000) resolves: retryCount++; continue; and the loop test.
DelayElapsed ==
  /\ pc = "delay"
  /\ retryCount' = retryCount + 1
  /\ IF LoopCondition(retryCount')
     THEN /\ calls' = calls + 1
          /\ pc' = "await"
     ELSE /\ pc' = "done"
          /\ UNCHANGED calls
  /\ UNCHANGED <<otherVars, modelVars, apiStyle, handler, wantsStream, waits, outcomes, resp, ended>>
  /\ UNCHANGED streamVars

\* ------------------------------------------------------------ stream events
\* The line (1-based) that byte position p of the body belongs to.
LineOf(b, p) == CountNL(SubSeq(b, 1, p - 1)) + 1

\* pipe() unpipes when its destination closes, which pauses the piped stream:
\* it delivers no further event.  The stream of a chat handler flows on.
Paused == clientGone /\ handler \in PipeHandlers

\* 'data' with the next k bytes of the upstream body.  After the client has
\* gone res.write discards what it is given.
OnData(k) ==
  /\ upState = "open"
  /\ ~Paused
  /\ k \in 1..(Len(body) - pos)
  /\ LET chunk == SubSeq(body, pos + 1, pos + k)
         taken == CountNL(SubSeq(body, 1, pos)) - CountNL(buffer)
         r == ProcessLines(handler, requestBuffer(buffer, peer.buffer) \o toString(chunk),
                           out, taken)
     IN IF handler \in ChatHandlers
        THEN /\ buffer' = r.buffer
             /\ out' = r.out
        ELSE /\ out' = PipeWrite(out, chunk)
             /\ UNCHANGED buffer
  /\ pos' = pos + k
  /\ straddled' = IF handler \in ChatHandlers /\ body[pos'] # "nl"
                  THEN straddled \cup {LineOf(body, pos')}
                  ELSE straddled
  /\ UNCHANGED <<otherVars, modelVars, apiStyle, handler, wantsStream, pc, retryCount, calls, waits,
                 outcomes, body, upState, resp, ended>>

\* 'end': the upstream stream has delivered all its bytes.
OnEnd ==
  /\ upState = "open"
  /\ ~Paused
  /\ pos = Len(body)
  /\ upState' = "ended"
  /\ out' = IF handler \in ChatHandlers
            THEN EndWrites(handler, buffer, out,
                           CountNL(SubSeq(body, 1, pos)) - CountNL(buffer))
            ELSE out
  /\ ended' = TRUE
  /\ UNCHANGED <<otherVars, modelVars, apiStyle, handler, wantsStream, pc, retryCount, calls, waits,
                 outcomes, body, pos, straddled, buffer, resp>>

\* The upstream connection fails mid-stream: the stream is destroyed without
\* 'end'.  No handler is registered for it and pipe does not end res.
UpstreamAbort ==
  /\ upState = "open"
  /\ upState' = "failed"
  /\ UNCHANGED <<otherVars, modelVars, apiStyle, handler, wantsStream, pc, retryCount, calls, waits,
                 outcomes, body, pos, straddled, buffer, out, resp, ended>>

\* The client closes its connection while its response is being streamed: res
\* emits 'close'.  No handler registers for it, on req or on res, and none
\* keeps a way to abort the upstream request.
ClientDisconnect ==
  /\ resp = "stream"
  /\ ~ended
  /\ ~clientGone
  /\ clientGone' = TRUE
  /\ UNCHANGED <<profile, defaultModel, peer, sideVars, modelVars, apiStyle, handler, wantsStream,
                 pc, retryCount, calls, waits, outcomes, resp, ended>>
  /\ UNCHANGED streamVars

\* ------------------------------------------------------ payload building
\* makeChatRequest under the gemini style builds the contents of its payload
\* from the messages it is given.
MakeGeminiPayload(msgs) ==
  /\ apiStyle = "gemini"
  /\ messages' = msgs
  /\ contents' = GeminiContents(msgs)
  /\ UNCHANGED <<profile, defaultModel, clientGone, peer, catalog, descriptor, modelVars,
                 apiStyle, handler, wantsStream, pc, retryCount, calls, waits, outcomes,
                 resp, ended>>
  /\ UNCHANGED streamVars

\* ----------------------------------------------------------- model lookup
\* GET /v1/models/:model for a name, after any earlier lookups: getModel runs
\* to its answer without awaiting anything.
GetModel(name) ==
  /\ handler \in {"", "getModel"}
  /\ handler' = "getModel"
  /\ model' = name
  /\ descriptor' = getOpenAIModel(catalog, name)
  /\ resp' = IF descriptor' # "" THEN "json" ELSE "error404"
  /\ ended' = TRUE
  /\ pc' = "done"
  /\ UNCHANGED <<profile, defaultModel, clientGone, peer, catalog, messages, contents,
                 upModel, hasInput, stream, apiStyle, wantsStream, retryCount, calls, waits, outcomes>>
  /\ UNCHANGED streamVars

\* --------------------------------------------------- a second chat stream
\* While a chat stream is open, a second client's streaming chat request gets
\* the stream of body b from its upstream call: the handler h attaches its own 'data' and 'end'
\* callbacks, closed over its own buffer and res.
PeerStart(h, b) ==
  /\ handler \in ChatHandlers
  /\ upState = "open"
  /\ peer.handler = ""
  /\ h \in ChatHandlers
  /\ peer' = [handler |-> h, body |-> b, pos |-> 0, upState |-> "open",
              buffer |-> <<>>, out |-> <<>>, ended |-> FALSE]
  /\ UNCHANGED <<profile, defaultModel, clientGone, sideVars, modelVars, apiStyle, handler, wantsStream,
                 pc, retryCount, calls, waits, outcomes, resp, ended>>
  /\ UNCHANGED streamVars

\* 'data' of the second stream with the next k bytes of its body.
PeerData(k) ==
  /\ peer.upState = "open"
  /\ k \in 1..(Len(peer.body) - peer.pos)
  /\ LET chunk == SubSeq(peer.body, peer.pos + 1, peer.pos + k)
         taken == CountNL(SubSeq(peer.body, 1, peer.pos)) - CountNL(peer.buffer)
         r == ProcessLines(peer.handler,
                           requestBuffer(peer.buffer, buffer) \o toString(chunk),
                           peer.out, taken)
     IN peer' = [peer EXCEPT !.buffer = r.buffer, !.out = r.out, !.pos = peer.pos + k]
  /\ UNCHANGED <<profile, defaultModel, clientGone, sideVars, modelVars, apiStyle, handler, wantsStream,
                 pc, retryCount, calls, waits, outcomes, resp, ended>>
  /\ UNCHANGED streamVars

\* 'end' of the second stream.
PeerEnd ==
  /\ peer.upState = "open"
  /\ peer.pos = Len(peer.body)
  /\ peer' = [peer EXCEPT !.upState = "ended",
                          !.out = EndWrites(peer.handler, peer.buffer, peer.out,
                                            CountNL(peer.body) - CountNL(peer.buffer)),
                          !.ended = TRUE]
  /\ UNCHANGED <<profile, defaultModel, clientGone, sideVars, modelVars, apiStyle, handler, wantsStream,
                 pc, retryCount, calls, waits, outcomes, resp, ended>>
  /\ UNCHANGED streamVars

Next ==
  \/ \E m \in ModelsFor(profile), i \in InputsFor(profile), s \in BOOLEAN :
       ChatCompletionsStart(m, i, s)
  \/ \E m \in ModelsFor(profile), i \in InputsFor(profile), s \in BOOLEAN : ChatStart(m, i, s)
  \/ \E h \in PipeHandlers, m \in ModelsFor(profile), i \in InputsFor(profile), s \in BOOLEAN :
       CompletionStart(h, m, i, s)
  \/ \E h \in EmbedHandlers, m \in ModelsFor(profile), i \in BOOLEAN : EmbeddingsStart(h, m, i)
  \/ UpstreamRateLimited
  \/ UpstreamFailed
  \/ \E b \in BodiesFor(profile) : UpstreamSucceeded(b)
  \/ DelayElapsed
  \/ \E k \in 1..(Len(body) - pos) : OnData(k)
  \/ OnEnd
  \/ UpstreamAbort

Spec == Init /\ [][Next]_vars

\* The event loop runs every callback whose event has arrived, and the
\* upstream eventually settles a call and delivers or ends an open stream.
FairSpec == Spec /\ WF_vars(Next)

\* Two requests in flight: the events of the two upstream streams interleave
\* in any order.
NextTwo ==
  \/ Next
  \/ \E h \in ChatHandlers, b \in PeerBodies : PeerStart(h, b)
  \/ \E k \in 1..(Len(peer.body) - peer.pos) : PeerData(k)
  \/ PeerEnd

SpecTwo == InitSmall /\ [][NextTwo]_vars

\* Clients that may disconnect mid-stream.
NextCancel ==
  \/ Next
  \/ ClientDisconnect

SpecCancel == InitSmall /\ [][NextCancel]_vars

\* Lookups of models in the catalogs.
NextCatalog == \E name \in Names \cup {"zz"} : GetModel(name)

SpecCatalog == InitCatalog /\ [][NextCatalog]_vars

\* Upstreams that may never answer a call; the event loop runs every callback
\* whose event has arrived.
NextHang ==
  \/ Next
  \/ UpstreamSilent

SpecHang == InitSmall /\ [][NextHang]_vars /\ WF_vars(NextHang)

\* Payloads built from every message sequence.
NextPayload == \E msgs \in MessageListsOf(MaxMessages) : MakeGeminiPayload(msgs)

SpecPayload == InitPayload /\ [][NextPayload]_vars

\* The handlers on upstream lines of every shape.
SpecShapes == InitShapes /\ [][Next]_vars

\* The handlers on upstream bodies that may lack their last terminator.
SpecTail == InitTail /\ [][Next]_vars

\* The handlers with and without DEFAULT_MODEL and with clients that name a
\* model or none.
SpecModels == InitModels /\ [][Next]_vars


\* ======================================================================
\* Properties
\* ======================================================================
RECURSIVE SplitLines(_)
\* The complete lines of a text, without their terminators; an unterminated
\* tail is no line.
SplitLines(text) ==
  LET e == indexOf(text, "nl") IN
    IF e = -1 THEN <<>>
    ELSE <<slice(text, 0, e)>> \o SplitLines(sliceFrom(text, e + 1))

\* The lines of the upstream body, decoded as one text.
BodyLines == SplitLines(toString(body))

\* A line that carries a delta: not blank, not the sentinel, a JSON object
\* with choices[0].delta.
IsDeltaLine(line) ==
  /\ trim(line) # <<>>
  /\ trim(stripDataPrefix(line)) # <<"D">>
  /\ HasDelta(stripDataPrefix(line))

\* A non-blank line that JSON.parse rejects.
IsMalformedLine(line) ==
  /\ trim(line) # <<>>
  /\ trim(stripDataPrefix(line)) # <<"D">>
  /\ ~JsonParses(stripDataPrefix(line))

\* The frames written for line i.
FramesOfLine(i) == {j \in 1..Len(out) : out[j].kind = "delta" /\ out[j].line = i}

\* The frames written when the whole body arrives as one chunk.
WholeDelivery(h, b) == ProcessLines(h, toString(b), <<>>, 0).out \o EndFrames(h)

\* Line terminators received so far.
TerminatorsReceived == CountNL(SubSeq(body, 1, pos))

StreamEnded == upState = "ended" /\ handler \in ChatHandlers

\* C1: split-invariance: when a chat stream made of delta lines only has
\* ended, the frames written are those written when the same bytes arrive as
\* one chunk, however the bytes were cut into chunks.
C1_SplitInvariant ==
  (StreamEnded /\ \A i \in 1..Len(BodyLines) : IsDeltaLine(BodyLines[i]))
    => out = WholeDelivery(handler, body)

\* C2: malformed-line resilience: when a chat stream that holds a malformed
\* line has ended, every complete delta line of it has its frame before the
\* terminal frame, and the terminal frame has been written.
C2_MalformedLineSkipped ==
  (StreamEnded /\ \E i \in 1..Len(BodyLines) : IsMalformedLine(BodyLines[i]))
    => /\ \E f \in 1..Len(out) : out[f].kind = "final"
       /\ \A i \in 1..Len(BodyLines) :
            IsDeltaLine(BodyLines[i]) =>
              \E j \in FramesOfLine(i) :
                \A f \in 1..Len(out) : out[f].kind = "final" => j < f

\* C3: a delta line that a chunk boundary cut before its terminator (also
\* between CR and LF) has at most one frame at any time, and exactly one when
\* the stream has ended.
C3_StraddledLineOneFrame ==
  handler \in ChatHandlers =>
    \A i \in straddled :
      (i <= Len(BodyLines) /\ IsDeltaLine(BodyLines[i])) =>
        /\ Cardinality(FramesOfLine(i)) <= 1
        /\ upState = "ended" => Cardinality(FramesOfLine(i)) = 1

\* C4: no frame before the terminator: the delta frames written are never more
\* than the line terminators received, and every frame written comes from a
\* line whose terminator has been received.
C4_NoFrameBeforeTerminator ==
  handler \in ChatHandlers =>
    /\ Cardinality({j \in 1..Len(out) : out[j].kind = "delta"}) <= TerminatorsReceived
    /\ \A j \in 1..Len(out) : out[j].line <= TerminatorsReceived

\* C4 witness: a frame has been written and a partial line waits in the buffer.
C4_Witness ==
  /\ handler \in ChatHandlers
  /\ upState = "open"
  /\ buffer # <<>>
  /\ indexOf(buffer, "nl") = -1
  /\ \E j \in 1..Len(out) : out[j].kind = "delta"

\* C5: retry bound of chatCompletions: never more than 3 upstream calls, and
\* after a third consecutive 429 the handler has answered with an error and
\* made no fourth call.
C5_RetryBound ==
  handler = "chatCompletions" =>
    /\ calls <= maxRetries
    /\ outcomes = <<"429", "429", "429">> =>
         (pc = "done" /\ resp = "error500" /\ ended /\ calls = maxRetries)

\* C5 witness: three consecutive 429 answered with the error response.
C5_Witness ==
  /\ handler = "chatCompletions"
  /\ outcomes = <<"429", "429", "429">>
  /\ resp = "error500"

\* C6: retry recovery of chatCompletions: after one or two 429 no response has
\* been sent, and after 429, 429, success the response is the successful one
\* (the stream, or the JSON body) and never an error.
C6_RetryRecovery ==
  handler = "chatCompletions" =>
    /\ outcomes \in {<<"429">>, <<"429", "429">>} => (resp = "none" /\ ~ended)
    /\ outcomes = <<"429", "429", "ok">> =>
         /\ wantsStream => (resp = "stream" /\ upState # "none")
         /\ ~wantsStream => (resp = "json" /\ ended)

\* C6 witness: the stream of the third attempt has been delivered to its end.
C6_Witness ==
  /\ handler = "chatCompletions"
  /\ outcomes = <<"429", "429", "ok">>
  /\ upState = "ended"
  /\ \E j \in 1..Len(out) : out[j].kind = "delta"

\* C7: the retry policy covers every request kind: after a 429 on the first
\* attempt no handler has answered with an error (the call is retried).
C7_RetryEveryHandler ==
  (handler \in Handlers /\ outcomes = <<"429">>) => resp = "none"

\* C8: in chatCompletions a wait follows a 429 that leaves attempts only: a
\* failure other than 429 and the third 429 are answered at once, and when the
\* handler is done the waits are the attempts minus one, never more than 2.
C8_WaitsOnlyBetweenAttempts ==
  handler = "chatCompletions" =>
    /\ waits <= maxRetries - 1
    /\ pc = "done" => waits = calls - 1
    /\ (outcomes # <<>> /\ outcomes[Len(outcomes)] = "error") =>
         (pc = "done" /\ resp = "error500" /\ waits = Len(outcomes) - 1)
    /\ (Len(outcomes) = maxRetries /\ outcomes[maxRetries] = "429") =>
         (pc = "done" /\ resp = "error500" /\ waits = maxRetries - 1)

\* C8 witness: a 429, one wait, then a failure other than 429.
C8_Witness ==
  /\ handler = "chatCompletions"
  /\ outcomes = <<"429", "error">>
  /\ waits = 1
  /\ resp = "error500"

\* C9: no retry once streaming has begun: from the moment the upstream call
\* has returned a stream, no step makes another upstream call.
C9_NoRetryMidStream == [][upState # "none" => calls' = calls]_vars

\* C9 witness: an upstream stream that failed after bytes of a malformed line
\* were delivered.
C9_Witness ==
  /\ handler \in ChatHandlers
  /\ upState = "failed"
  /\ pos > 0
  /\ \E i \in 1..Len(BodyLines) : IsMalformedLine(BodyLines[i])

\* C10: every started chat stream is eventually closed towards the client.
C10_StreamEventuallyClosed ==
  (upState = "open" /\ handler \in ChatHandlers) ~> ended

\* A line that is the end-of-stream sentinel, with or without 'data: '.
IsSentinelLine(line) ==
  /\ trim(line) # <<>>
  /\ trim(stripDataPrefix(line)) = <<"D">>

\* The positions in out of the frames of a kind.
FramesOfKind(kind) == {j \in 1..Len(out) : out[j].kind = kind}

\* C11: when a streamed /v1/chat/completions response has ended, every
\* sentinel line of the upstream body has been forwarded as a sentinel frame
\* of its own, after the frames of the lines before it.
C11_SentinelForwarded ==
  (StreamEnded /\ handler = "chatCompletions") =>
    \A i \in 1..Len(BodyLines) :
      IsSentinelLine(BodyLines[i]) =>
        \E j \in FramesOfKind("sentinel") :
          /\ out[j].line = i
          /\ \A f \in 1..(j - 1) : out[f].line < i

\* C12: nothing written on /api/chat or /api/generate is the sentinel or
\* holds bytes of a sentinel line.
C12_NoSentinelOnLocalRunner ==
  handler \in {"chat", "generate"} =>
    \A j \in 1..Len(out) :
      /\ out[j].kind # "sentinel"
      /\ \A c \in 1..Len(out[j].content) : out[j].content[c] # "D"

\* C13: when a streamed /v1/chat/completions response has ended, it holds
\* exactly one terminal frame and exactly one sentinel, and the sentinel is
\* the last thing written.
C13_OneTerminalOneSentinel ==
  (StreamEnded /\ handler = "chatCompletions") =>
    /\ ended
    /\ Cardinality(FramesOfKind("final")) = 1
    /\ Cardinality(FramesOfKind("sentinel")) = 1
    /\ out[Len(out)].kind = "sentinel"

\* C14: when the upstream of a streamed /api/chat response has ended, the
\* last frame written is the terminal one (done:true), every frame before it
\* is a delta frame (done:false), and the response is closed.
C14_ChatOneDoneFrame ==
  (handler = "chat" /\ upState = "ended") =>
    /\ out # <<>>
    /\ out[Len(out)].kind = "final"
    /\ \A j \in 1..(Len(out) - 1) : out[j].kind = "delta"
    /\ ended

\* C14 witness: an ended /api/chat stream with a delta frame before the
\* terminal frame, whose upstream held a sentinel line.
C14_Witness ==
  /\ handler = "chat"
  /\ upState = "ended"
  /\ Len(out) = 2
  /\ out[1].kind = "delta"
  /\ \E i \in 1..Len(BodyLines) : IsSentinelLine(BodyLines[i])

\* C15: when the upstream of a streamed /api/generate response has delivered
\* bytes and ended, the client has received no upstream bytes as they came, and the last frame
\* is the terminal one (done:true).
C15_GenerateLocalRunnerShape ==
  (handler = "generate" /\ upState = "ended" /\ pos > 0) =>
    /\ FramesOfKind("raw") = {}
    /\ out # <<>>
    /\ out[Len(out)].kind = "final"
    /\ \A j \in 1..(Len(out) - 1) : out[j].kind = "delta"

\* C16: in a chat stream the frames made from upstream lines are written in
\* the order of their lines, at any moment and however the bytes were cut
\* into chunks, and the terminal frame follows all of them.
C16_FramesInLineOrder ==
  handler \in ChatHandlers =>
    \A i \in 1..Len(out) : \A j \in 1..Len(out) :
      /\ (i < j /\ out[i].line > 0 /\ out[j].line > 0) => out[i].line < out[j].line
      /\ (out[i].line > 0 /\ out[j].kind = "final") => i < j

\* C16 witness: an ended stream with frames of two lines, of which the second
\* was cut by a chunk boundary.
C16_Witness ==
  /\ StreamEnded
  /\ \E i \in 1..Len(out) : \E j \in 1..Len(out) :
       /\ i < j
       /\ out[i].kind = "delta"
       /\ out[j].kind = "delta"
       /\ out[j].line \in straddled

RECURSIVE AloneRuns(_, _, _)
\* What a chat stream of handler h and body b that runs alone can have
\* received and have in its buffer and have written after at most p bytes,
\* over every cut of these bytes into chunks.
AloneRuns(h, b, p) ==
  IF p = 0 THEN {[pos |-> 0, buffer |-> <<>>, out |-> <<>>]}
  ELSE LET before == AloneRuns(h, b, p - 1)
           Step(r) == ProcessLines(h, r.buffer \o toString(SubSeq(b, r.pos + 1, p)), r.out,
                                   CountNL(SubSeq(b, 1, r.pos)) - CountNL(r.buffer))
       IN before \cup {[pos |-> p, buffer |-> Step(r).buffer, out |-> Step(r).out] :
                         r \in before}

\* The runs alone of every handler and body of the two streams.
AloneTable ==
  UNION {{<<h, b, r>> : r \in AloneRuns(h, b, Len(b))} :
           h \in ChatHandlers, b \in SmallBodies \cup PeerBodies}

\* The stream (h, b, p, state, buf, frames) is as one of its runs alone.
AsAlone(h, b, p, state, buf, frames) ==
  LET closing == IF state = "ended" THEN EndFrames(h) ELSE <<>>
      written == SubSeq(frames, 1, Len(frames) - Len(closing))
  IN /\ frames = written \o closing
     /\ <<h, b, [pos |-> p, buffer |-> buf, out |-> written]>> \in AloneTable

\* C17: with two chat streams in flight whose 'data' and 'end' events
\* interleave in any order, what each client has received, and what is
\* buffered for it, is what a run of its request alone gives for some cut of
\* the same bytes.
C17_StreamsIsolated ==
  /\ (handler \in ChatHandlers /\ upState \in {"open", "ended"}) =>
       AsAlone(handler, body, pos, upState, buffer, out)
  /\ peer.handler # "" =>
       AsAlone(peer.handler, peer.body, peer.pos, peer.upState, peer.buffer, peer.out)

\* C17 witness: both streams are open, each with a frame written and a
\* partial line of its own in its buffer.
C17_Witness ==
  /\ handler \in ChatHandlers
  /\ upState = "open"
  /\ peer.upState = "open"
  /\ out # <<>>
  /\ peer.out # <<>>
  /\ buffer # <<>>
  /\ peer.buffer # <<>>
  /\ buffer # peer.buffer

\* C18: once the client of a chat stream has disconnected, no step reads or
\* processes a further chunk of the upstream stream.
C18_NoChunkAfterDisconnect ==
  [][(clientGone /\ handler \in ChatHandlers) => pos' = pos]_vars

\* The resolved effective model of the request: the override if configured,
\* otherwise the client's model.
EffectiveModel == IF defaultModel # "" THEN defaultModel ELSE model

\* C19: with DEFAULT_MODEL configured, the model of every upstream request, of
\* every handler, is the override.
C19_OverrideOnEveryUpstreamCall ==
  (defaultModel # "" /\ calls > 0) => upModel = defaultModel

\* C20: when the override or the client names a model, every delta and
\* terminal frame of a streamed chat response and the non-streaming JSON body
\* carry the resolved effective model, on both chat handlers.
C20_ResponseModelIsEffective ==
  (handler \in ChatHandlers /\ EffectiveModel # "") =>
    /\ \A j \in 1..Len(out) :
         out[j].kind \in {"delta", "final"} => FrameModel(handler, out[j].kind) = EffectiveModel
    /\ resp = "json" => JsonModel(handler) = EffectiveModel

\* C21: on /v1/embeddings and /v1/embed a request without model or without
\* input is answered 400 and makes no upstream call, and a request with both
\* makes its upstream call and is not answered 400.
C21_EmbeddingsValidated ==
  handler \in {"v1embeddings", "v1embed"} =>
    /\ (model = "" \/ ~hasInput) => (resp = "error400" /\ ended /\ calls = 0)
    /\ (model # "" /\ hasInput) => (calls = 1 /\ resp # "error400")

\* C21 witness: a request with a model and no input has been answered 400.
C21_Witness ==
  /\ handler \in {"v1embeddings", "v1embed"}
  /\ model # ""
  /\ ~hasInput
  /\ resp = "error400"
  /\ calls = 0

\* C22: a chat or completion request that lacks its messages or prompt, or
\* names no model while no override is configured, makes no upstream call and
\* is answered with a 4xx error.
C22_ValidationBeforeUpstream ==
  (handler \in ChatHandlers \cup PipeHandlers /\ (~hasInput \/ Or(model, defaultModel) = "")) =>
    (calls = 0 /\ resp = "error400")

\* The names in the catalog.
InCatalog(name) == \E i \in 1..Len(catalog) : catalog[i] = name

\* C23: every GET /v1/models/:model leaves the catalog as it is and answers
\* 404 exactly when the name is not in the catalog, and the descriptor whose
\* id is the requested name exactly when it is.
C23_GetModelFollowsCatalog ==
  [][/\ catalog' = catalog
     /\ handler' = "getModel" =>
          /\ resp' = "error404" <=> ~InCatalog(model')
          /\ resp' = "json" <=> InCatalog(model')
          /\ resp' = "json" => descriptor' = model'
          /\ resp' = "error404" => descriptor' = ""]_vars

\* C23 witness: with a catalog that holds m1 and not M1, a lookup of M1 has
\* been answered 404.
C23_Witness ==
  /\ handler = "getModel"
  /\ InCatalog("m1")
  /\ ~InCatalog("M1")
  /\ model = "M1"
  /\ resp = "error404"

\* C24: under the gemini style no chat or completion request is streamed,
\* whatever its stream field: no stream handler is attached, nothing is piped
\* or written as a frame, and a successful request is answered by one JSON
\* body made from the one upstream call that succeeded.
C24_GeminiNeverStreams ==
  (apiStyle = "gemini" /\ handler \in ChatHandlers \cup PipeHandlers) =>
    /\ ~wantsStream
    /\ upState = "none"
    /\ out = <<>>
    /\ resp # "stream"
    /\ (outcomes # <<>> /\ outcomes[Len(outcomes)] = "ok") =>
         /\ resp = "json"
         /\ ended
         /\ pc = "done"
         /\ Cardinality({i \in 1..Len(outcomes) : outcomes[i] = "ok"}) = 1

\* C24 witness: under the gemini style a request with stream set has been
\* answered by a JSON body.
C24_Witness ==
  /\ apiStyle = "gemini"
  /\ handler \in ChatHandlers \cup PipeHandlers
  /\ stream
  /\ resp = "json"

\* C25: every non-streaming chat or completion request that awaits its
\* upstream call is eventually answered, also when the upstream never
\* answers.
C25_NonStreamingEventuallyAnswered ==
  (handler \in ChatHandlers \cup PipeHandlers /\ pc = "await" /\ ~wantsStream) ~> ended

\* C26: when the upstream call of a non-streaming request fails and is not
\* retried, that step answers 500, to a client that has been sent nothing
\* before, and ends the response; no later step writes or calls anything.
C26_UpstreamFailureAnswered500 ==
  [][/\ (/\ handler \in Handlers
         /\ ~wantsStream
         /\ Len(outcomes') = Len(outcomes) + 1
         /\ outcomes'[Len(outcomes')] # "ok"
         /\ pc' # "delay")
          => (resp = "none" /\ out = <<>> /\ resp' = "error500" /\ ended' /\ out' = <<>>)
     /\ resp = "error500" => (resp' = resp /\ ended' /\ out' = out /\ calls' = calls)]_vars

\* C26 witness: a non-streaming /api/generate whose upstream call failed has
\* been answered 500.
C26_Witness ==
  /\ handler = "generate"
  /\ ~wantsStream
  /\ outcomes = <<"error">>
  /\ resp = "error500"
  /\ ended

\* C27: the contents built for the gemini style have the length and the order
\* of the messages: entry i has exactly one part, the text of message i, and
\* the role of message i with system replaced by user; no entry has the role
\* system.
C27_GeminiContents ==
  /\ Len(contents) = Len(messages)
  /\ \A i \in 1..Len(messages) :
       /\ Len(contents[i].parts) = 1
       /\ contents[i].parts[1].text = GeminiText(messages[i].content)
       /\ messages[i].role = "system" => contents[i].role = "user"
       /\ messages[i].role # "system" => contents[i].role = messages[i].role
       /\ contents[i].role # "system"

\* C27 witness: contents built from a system message with a non-string
\* content between two other messages.
C27_Witness ==
  /\ Len(messages) = 3
  /\ messages[1].role = "user"
  /\ messages[2].role = "system"
  /\ messages[2].content.type = "object"
  /\ messages[3].role = "assistant"
  /\ Len(contents) = 3
  /\ contents[2].role = "user"

\* C28: in a chat stream no delta frame comes from a line that follows a
\* sentinel line of the upstream.
C28_NoDeltaAfterSentinel ==
  handler \in ChatHandlers =>
    \A j \in 1..Len(out) :
      out[j].kind = "delta" =>
        \A i \in 1..(out[j].line - 1) : ~IsSentinelLine(BodyLines[i])

\* The lines the 'data' handler has taken out of its buffer so far.
ConsumedLines == TerminatorsReceived - CountNL(buffer)

\* A line whose trimmed content, after an optional 'data: ', is the sentinel.
IsSentinelByContent(line) == trim(stripDataPrefix(trim(line))) = <<"D">>

\* C29: on /v1/chat/completions every line taken from the buffer whose
\* trimmed content, after an optional 'data: ', is the sentinel has been
\* written as the sentinel.
C29_SentinelRecognised ==
  handler = "chatCompletions" =>
    \A i \in 1..ConsumedLines :
      IsSentinelByContent(BodyLines[i]) =>
        \E j \in FramesOfKind("sentinel") : out[j].line = i

\* C30: every line taken from the buffer that is a JSON object has exactly
\* one delta frame, whose content is that of its delta, empty when it has
\* none.
C30_OneFramePerObjectLine ==
  handler \in ChatHandlers =>
    \A i \in 1..ConsumedLines :
      (/\ trim(BodyLines[i]) # <<>>
       /\ ~IsSentinelByContent(BodyLines[i])
       /\ JsonParses(stripDataPrefix(BodyLines[i])))
        => /\ Cardinality(FramesOfLine(i)) = 1
           /\ \A j \in FramesOfLine(i) :
                out[j].content = DeltaContent(stripDataPrefix(BodyLines[i]))

\* C31: when a chat stream ends while its buffer holds text without a line
\* terminator, the 'end' step writes the terminal frame (and, on
\* /v1/chat/completions, the closing sentinel) after the frames written
\* before and nothing else: the buffered text gets no frame.
C31_UnterminatedTailDropped ==
  [][(/\ handler \in ChatHandlers
      /\ upState = "open"
      /\ upState' = "ended"
      /\ buffer # <<>>
      /\ indexOf(buffer, "nl") = -1)
       => /\ out' = out \o EndFrames(handler)
          /\ ended'
          /\ \A j \in 1..Len(out') : out'[j].line <= CountNL(body)]_vars

\* C31 witness: a stream has ended whose body ends in a whole delta line
\* without terminator, still in the buffer, after a line that got its frame.
C31_Witness ==
  /\ StreamEnded
  /\ buffer = <<"{", "a", "}">>
  /\ Len(out) = 1 + Len(EndFrames(handler))
  /\ out[1].kind = "delta"

\* C32: between chunk arrivals the buffer of a chat stream holds no line
\* terminator: every complete line of the chunks received so far has been
\* taken out of it, whatever the lines are.
C32_NoTerminatorInBuffer ==
  handler \in ChatHandlers => indexOf(buffer, "nl") = -1

\* The state of a response that has been finished at most once: once it is
\* finished the handler has returned and no stream handler is left to run; an
\* answer in one piece (res.json or an error answer) is finished and carries
\* no frame; a streamed chat response carries its terminal frame exactly once,
\* when it is finished, and nothing after the frames of the 'end' handler.
FinishedOnce ==
  /\ ended => (pc = "done" /\ upState \in {"none", "ended"})
  /\ resp \in {"json", "error400", "error500"} => (ended /\ out = <<>> /\ upState = "none")
  /\ (handler \in ChatHandlers /\ ~ended) => FramesOfKind("final") = {}
  /\ (handler \in ChatHandlers /\ ended /\ resp = "stream") =>
       /\ Cardinality(FramesOfKind("final")) = 1
       /\ Len(out) >= Len(EndFrames(handler))
       /\ SubSeq(out, Len(out) - Len(EndFrames(handler)) + 1, Len(out)) = EndFrames(handler)

\* C33: the response of a request is finished at most once, by one res.json,
\* one res.end after streaming or one error answer, and once it is finished
\* (or an error answer has been sent) it stays as it is: no frame is written,
\* no other answer is sent, for every sequence of upstream events.
C33_SingleCompletion ==
  [][/\ FinishedOnce
     /\ FinishedOnce'
     /\ ended => (ended' /\ resp' = resp /\ out' = out)
     /\ resp # "none" => resp' = resp
     /\ (~ended /\ ended') => (pc # "done" \/ upState = "open")]_vars

\* C33 witness: a streamed chat response that was finished after a delta
\* frame, by the 'end' handler of its upstream stream.
C33_Witness ==
  /\ handler \in ChatHandlers
  /\ resp = "stream"
  /\ ended
  /\ upState = "ended"
  /\ Len(out) > Len(EndFrames(handler))
  /\ out[1].kind = "delta"

=============================================================================
